---- MODULE Spec2Model ----
(***************************************************************************)
(* The storybook generator of src/main.py: the procedural content          *)
(* generator (generate_story and its helpers) and the generate handler     *)
(* (api_generate_story) with its persistence step.                         *)
(*                                                                         *)
(* A Python str is a sequence of tokens (TLA+ strings); concatenation of   *)
(* str values is \o on the sequences.  Text whose individual characters    *)
(* matter to the code (character names, style, tone) is tokenised one      *)
(* character per token.  An Optional value is <<>> (None) or <<v>>.        *)
(***************************************************************************)
EXTENDS Integers, Sequences, FiniteSets, TLC

VARIABLES
    pc,           \* position of the generate handler
    req,          \* the GenerateRequest being served
    i,            \* loop index of generate_story
    chapters,     \* the list `chapters` of generate_story
    story,        \* Optional Story returned by generate_story
    created,      \* calls of create_document during this call: document and outcome
    response,     \* Optional outcome of the handler (a response or an error)
    args,         \* inputs of the function under test (function specifications)
    result        \* outputs of the function under test (function specifications)

vars == <<pc, req, i, chapters, story, created, response, args, result>>

-----------------------------------------------------------------------------
(* Python values *)

None == <<>>
Some(v) == <<v>>

\* Truthiness of an Optional[str]: None and "" are both falsy.
Truthy(opt) == opt # None /\ opt[1] # <<>>

\* `opt or default` for an Optional[str].
OrElse(opt, default) == IF Truthy(opt) THEN opt[1] ELSE default

Range(s) == {s[k] : k \in DOMAIN s}

Min(a, b) == IF a < b THEN a ELSE b

\* s[:n]
Take(s, n) == SubSeq(s, 1, Min(n, Len(s)))

RECURSIVE Concat(_)
\* "".join(parts)
Concat(parts) == IF parts = <<>> THEN <<>> ELSE Head(parts) \o Concat(Tail(parts))

RECURSIVE Join(_, _)
\* sep.join(parts)
Join(sep, parts) ==
    IF parts = <<>> THEN <<>>
    ELSE IF Len(parts) = 1 THEN parts[1]
    ELSE parts[1] \o <<sep>> \o Join(sep, Tail(parts))

Digits == <<"0", "1", "2", "3", "4", "5", "6", "7", "8", "9">>

RECURSIVE Str(_)
\* str(n) for n >= 0, as it is interpolated by an f-string: decimal digits.
Str(n) == IF n < 10 THEN <<Digits[n + 1]>> ELSE Str(n \div 10) \o <<Digits[(n % 10) + 1]>>

\* s.replace(old, ""), old being one token.
Remove(s, old) == SelectSeq(s, LAMBDA t : t # old)

LowerLetters == <<"a", "b", "c", "d", "e", "f", "g", "h", "i", "j", "k", "l", "m",
                  "n", "o", "p", "q", "r", "s", "t", "u", "v", "w", "x", "y", "z">>
UpperLetters == <<"A", "B", "C", "D", "E", "F", "G", "H", "I", "J", "K", "L", "M",
                  "N", "O", "P", "Q", "R", "S", "T", "U", "V", "W", "X", "Y", "Z">>

IsLower(c) == \E k \in DOMAIN LowerLetters : LowerLetters[k] = c
IsUpper(c) == \E k \in DOMAIN UpperLetters : UpperLetters[k] = c
IsCased(c) == IsLower(c) \/ IsUpper(c) \/ c = "<U+00DF>"

\* c.upper() for one character: a str, which is longer than one character for
\* the characters whose upper case is a multi-character expansion.
UpperChar(c) ==
    IF c = "<U+00DF>" THEN <<"S", "S">>
    ELSE IF IsLower(c) THEN <<UpperLetters[CHOOSE k \in DOMAIN LowerLetters : LowerLetters[k] = c]>>
    ELSE <<c>>

\* c.lower() for one character.
LowerChar(c) ==
    IF IsUpper(c) THEN <<LowerLetters[CHOOSE k \in DOMAIN UpperLetters : UpperLetters[k] = c]>>
    ELSE <<c>>

\* c's title case for one character (U+00DF, sharp s, title-cases to "Ss").
TitleChar(c) == IF c = "<U+00DF>" THEN <<"S", "s">> ELSE UpperChar(c)

\* s.title(): a cased character is title-cased when it starts a word (it does
\* not follow a cased character) and lower-cased otherwise.
Title(s) ==
    Concat([k \in DOMAIN s |->
        IF k > 1 /\ IsCased(s[k - 1]) THEN LowerChar(s[k]) ELSE TitleChar(s[k])])

Whitespace == {" ", "\t", "\n"}

RECURSIVE LStrip(_)
LStrip(s) == IF s # <<>> /\ Head(s) \in Whitespace THEN LStrip(Tail(s)) ELSE s

RECURSIVE RStrip(_)
RStrip(s) ==
    IF s # <<>> /\ s[Len(s)] \in Whitespace THEN RStrip(SubSeq(s, 1, Len(s) - 1)) ELSE s

\* s.strip()
Strip(s) == RStrip(LStrip(s))

\* audience.lower(), on the audience values the requests use.
Lower(s) ==
    CASE s = "Teens" -> "teens"
      [] s = "ADULTS" -> "adults"
      [] OTHER -> s

-----------------------------------------------------------------------------
(* Static tables *)

PALETTES == <<
    <<"#f0abfc", "#60a5fa", "#c4b5fd">>,
    <<"#fda4af", "#a78bfa", "#7dd3fc">>,
    <<"#bef264", "#34d399", "#93c5fd">>,
    <<"#fef08a", "#f472b6", "#93c5fd">> >>

seeds == <<
    "A New Beginning", "Whispers in the Wind", "The Hidden Path", "A Promise at Dawn",
    "Shadows and Starlight", "Secrets of the {setting}", "Turning the Tide",
    "The Heart Remembers", "Trials of Courage", "Home Again" >>

Adornments == <<
    "sun-dappled paths", "quiet lanterns", "soft thunder beyond the hills",
    "maps scribbled in the margins", "a pocket full of brave ideas" >>

Voices == [children |-> "gentle and curious",
           teens    |-> "brisk and adventurous",
           adults   |-> "lyrical and reflective"]

BeatSentences == [
    setup      |-> "They meet a gentle challenge that hints at something larger.",
    escalation |-> "The path grows twisty; trust and patience are tested in warm, human ways.",
    climax     |-> "At last, the heart of the problem opens<U+2014>difficult, yet navigable with kindness.",
    resolution |-> "With lessons gathered, the world feels wider, and home feels new."]

SYSTEM_PROMPT == "You are FLAMES.BLUE - a next-generation, god-tier Storybook Architect. ..."

GeneratorVersion == "1.1-local-images"

FallbackGlyph == <<"<U+2605>">>

-----------------------------------------------------------------------------
(* The generator's functions *)

make_chapter_title_nowrap(title, idx, style, tone) ==
    LET base0 == <<seeds[Min(idx, Len(seeds))]>>
        base1 == IF Truthy(style) THEN base0 \o <<" <U+2014> ">> \o Title(style[1]) ELSE base0
        base2 == IF Truthy(tone) THEN base1 \o <<" (">> \o Title(tone[1]) \o <<")">> ELSE base1
    IN  <<"Chapter ">> \o Str(idx) \o <<": ">> \o base2

make_chapter_title(title, idx, style, tone) ==
    LET base0 == <<seeds[((idx - 1) % Len(seeds)) + 1]>>
        base1 == IF Truthy(style) THEN base0 \o <<" <U+2014> ">> \o Title(style[1]) ELSE base0
        base2 == IF Truthy(tone) THEN base1 \o <<" (">> \o Title(tone[1]) \o <<")">> ELSE base1
    IN  <<"Chapter ">> \o Str(idx) \o <<": ">> \o base2

\* The paragraph for one drawn decorative phrase `adorn`.
paragraph(theme, setting, audience, characters, adorn) ==
    LET who   == IF characters # <<>> THEN Join(", ", Take(characters, 3))
                 ELSE <<"a small band of friends">>
        place == OrElse(setting,
                        <<"a place where the sky feels close and the air hums with possibility">>)
        key   == Lower(audience)
        voice == IF key \in DOMAIN Voices THEN Voices[key] ELSE "gentle and curious"
    IN  <<"With a ", voice, " voice, the tale leans into ">> \o OrElse(theme, <<"wonder">>)
        \o <<", as ">> \o who \o <<" step through ">> \o place \o <<". ">>
        \o <<"They carry ", adorn,
             ", and with each breath they learn that courage grows when it is shared.">>

\* The arc label of chapter idx of total.
Arc(idx, total) ==
    IF idx = 1 THEN "setup"
    ELSE IF idx = total THEN "climax"
    ELSE IF idx < total THEN "escalation"
    ELSE "resolution"

BeatKeyMutArcOnly(idx, total) == Arc(idx, total)

\* The key the beat-sentence table is indexed by.
BeatKey(idx, total) == IF idx < total THEN Arc(idx, total) ELSE "resolution"

FriendPoolMutAll(characters, speaker) == characters

\* The list the friend is drawn from: the others, or everybody when there are none.
FriendPool(characters, speaker) ==
    LET others == SelectSeq(characters, LAMBDA c : c # speaker)
    IN  IF others # <<>> THEN others ELSE characters

\* The dialogue suffix for a drawn speaker and friend.
Dialogue(speaker, friend) ==
    <<"\n\n\"We can do this together,\" ">> \o speaker
    \o <<" says. \"We always could,\" ">> \o friend \o <<" replies.">>

\* The random draws of one chapter_text call: adorn, and speaker and friend when
\* there are characters.
TextDraws(characters) ==
    IF characters = <<>>
    THEN {[adorn |-> a, talk |-> None] : a \in Range(Adornments)}
    ELSE {[adorn |-> a, talk |-> Some(sf)] :
            a \in Range(Adornments),
            sf \in {p \in Range(characters) \X Range(characters) :
                      p[2] \in Range(FriendPool(characters, p[1]))}}

chapter_text(idx, total, theme, setting, audience, characters, draw) ==
    LET intro    == paragraph(theme, setting, audience, characters, draw.adorn)
        beat     == BeatSentences[BeatKey(idx, total)]
        dialogue == IF characters # <<>>
                    THEN Dialogue(draw.talk[1][1], draw.talk[1][2])
                    ELSE <<" ">>
    IN  intro \o <<" ", beat>> \o dialogue

InitialsListMutTruncateFirst(chars) ==
    LET kept == SelectSeq(Take(chars, 3), LAMBDA c : Strip(c) # <<>>)
    IN  [k \in DOMAIN kept |-> UpperChar(Strip(kept[k])[1])]

\* [c.strip()[0].upper() for c in chars if c.strip()]
InitialsList(chars) ==
    LET kept == SelectSeq(chars, LAMBDA c : Strip(c) # <<>>)
    IN  [k \in DOMAIN kept |-> UpperChar(Strip(kept[k])[1])]

initials(chars) ==
    IF chars = <<>> THEN FallbackGlyph
    ELSE LET joined == Concat(Take(InitialsList(chars), 3))
         IN  IF joined # <<>> THEN joined ELSE FallbackGlyph

\* The token as urllib.parse.quote leaves it: verbatim when all its characters
\* are unreserved, percent-escaped otherwise.
Unreserved == Range(Digits) \cup Range(LowerLetters) \cup Range(UpperLetters)
              \cup {"_", ".", "-", "~", "/"}

QuoteTok(t) == [pct |-> t \notin Unreserved, of |-> t]

\* quote(text)
Quote(text) == [k \in DOMAIN text |-> QuoteTok(text[k])]

\* urllib.parse.unquote, the inverse a consumer of the data reference applies.
Unquote(q) == [k \in DOMAIN q |-> q[k].of]

\* quote over the document: every piece of text of the markup is encoded.
QuoteSvg(svg) ==
    [svg EXCEPT !.gradient = [id    |-> Quote(svg.gradient.id),
                              stops |-> [k \in DOMAIN svg.gradient.stops |->
                                            [offset |-> svg.gradient.stops[k].offset,
                                             color  |-> QuoteTok(svg.gradient.stops[k].color)]]],
                !.glyph    = Quote(svg.glyph),
                !.lines    = [k \in DOMAIN svg.lines |-> Quote(svg.lines[k])],
                !.tooltip  = Quote(svg.tooltip)]

UnquoteSvg(q) ==
    [q EXCEPT !.gradient = [id    |-> Unquote(q.gradient.id),
                            stops |-> [k \in DOMAIN q.gradient.stops |->
                                          [offset |-> q.gradient.stops[k].offset,
                                           color  |-> q.gradient.stops[k].color.of]]],
              !.glyph    = Unquote(q.glyph),
              !.lines    = [k \in DOMAIN q.lines |-> Unquote(q.lines[k])],
              !.tooltip  = Unquote(q.tooltip)]

svg_data_url(svg) == [prefix |-> "data:image/svg+xml;charset=utf-8,", body |-> QuoteSvg(svg)]

\* The document a data reference carries.
SvgOf(url) == UnquoteSvg(url.body)

\* The chapter illustration for the drawn palette p.  The markup is kept as its
\* parts: canvas, gradient, circles (cx, cy, r), glyph, the two caption lines
\* and the <title> tooltip.
chapter_image_svg(title, idx, total, prompt, chars, p) ==
    svg_data_url(
        [width    |-> 1200,
         height   |-> 675,
         gradient |-> [id    |-> <<"g">> \o Str(idx),
                       stops |-> << [offset |-> 0,   color |-> p[1]],
                                    [offset |-> 50,  color |-> p[2]],
                                    [offset |-> 100, color |-> p[3]] >>],
         opacity  |-> "0.2",
         circles  |-> << <<200, 200, 140>>, <<1000, 140, 110>>, <<900, 520, 160>> >>,
         glyph    |-> initials(chars),
         lines    |-> << <<"Chapter ">> \o Str(idx) \o <<" / ">> \o Str(total),
                         Remove(title, "Chapter ") >>,
         tooltip  |-> prompt])

cover_image_svg(title, prompt, chars, p) ==
    svg_data_url(
        [width    |-> 1200,
         height   |-> 1600,
         gradient |-> [id    |-> <<"gcover">>,
                       stops |-> << [offset |-> 0,   color |-> p[1]],
                                    [offset |-> 60,  color |-> p[2]],
                                    [offset |-> 100, color |-> p[3]] >>],
         opacity  |-> "0.15",
         circles  |-> << <<300, 400, 220>>, <<1000, 300, 160>>, <<800, 1200, 260>> >>,
         glyph    |-> initials(chars),
         lines    |-> << title, <<"An illustrated storybook">> >>,
         tooltip  |-> prompt])

image_prompt_for_chapter(idx, title, theme, setting, chars, style) ==
    LET joined == Join(", ", Take(chars, 3))
        who    == IF joined # <<>> THEN joined ELSE <<"a small band of friends">>
    IN  <<"Illustrate chapter ">> \o Str(idx) \o <<" titled '">> \o title \o <<"'. Show ">>
        \o who \o <<" in ">> \o OrElse(setting, <<"a cozy imaginative setting">>)
        \o <<", evoking ">> \o OrElse(theme, <<"wonder">>)
        \o <<" in a ">> \o OrElse(style, <<"storybook">>)
        \o <<" style. Soft lighting, warm colors, inclusive and kind.">>

\* The title generate_story hands to chapter_image_svg for chapter idx.
SvgTitleArg(r, c_title) == r.title

ChapterImagesMutPromptAlways(r, c_prompt, c_svg) ==
    [image_prompt |-> Some(c_prompt),
     image_svg    |-> IF r.include_images THEN Some(c_svg) ELSE None]

\* The two optional illustration fields of a Chapter.
ChapterImages(r, c_prompt, c_svg) ==
    [image_prompt |-> IF r.include_images THEN Some(c_prompt) ELSE None,
     image_svg    |-> IF r.include_images THEN Some(c_svg) ELSE None]

BuildChapterMutPromptFromText(r, idx, d, p) ==
    LET c_title  == make_chapter_title(r.title, idx, r.style, r.tone)
        c_text   == chapter_text(idx, r.chapters, r.theme, r.setting, r.audience,
                                 r.characters, d)
        c_prompt == image_prompt_for_chapter(idx, c_text, r.theme, r.setting,
                                             r.characters, r.style)
        c_svg    == IF r.include_images
                    THEN chapter_image_svg(SvgTitleArg(r, c_title), idx, r.chapters,
                                           c_prompt, r.characters, PALETTES[p])
                    ELSE None
        img      == ChapterImages(r, c_prompt, c_svg)
    IN  [index        |-> idx,
         title        |-> c_title,
         text         |-> c_text,
         image_prompt |-> img.image_prompt,
         image_svg    |-> img.image_svg]

\* One iteration of the loop of generate_story: the Chapter for index idx,
\* text draw d and palette draw p (p is not drawn without include_images).
BuildChapter(r, idx, d, p) ==
    LET c_title  == make_chapter_title(r.title, idx, r.style, r.tone)
        c_text   == chapter_text(idx, r.chapters, r.theme, r.setting, r.audience,
                                 r.characters, d)
        c_prompt == image_prompt_for_chapter(idx, c_title, r.theme, r.setting,
                                             r.characters, r.style)
        c_svg    == IF r.include_images
                    THEN chapter_image_svg(SvgTitleArg(r, c_title), idx, r.chapters,
                                           c_prompt, r.characters, PALETTES[p])
                    ELSE None
        img      == ChapterImages(r, c_prompt, c_svg)
    IN  [index        |-> idx,
         title        |-> c_title,
         text         |-> c_text,
         image_prompt |-> img.image_prompt,
         image_svg    |-> img.image_svg]

CoverPrompt(r) ==
    LET joined == Join(", ", r.characters)
    IN  <<"Illustrated cover in a cozy, luminous style. Title: '">> \o r.title \o <<"'. ">>
        \o <<"Theme: ">> \o OrElse(r.theme, <<"wonder">>)
        \o <<". Setting: ">> \o OrElse(r.setting, <<"imaginative landscape">>) \o <<". ">>
        \o <<"Characters: ">> \o (IF joined # <<>> THEN joined ELSE <<"a group of friends">>)
        \o <<".">>

\* The Story generate_story returns, for the chapters built and cover palette p.
BuildStory(r, chs, p) ==
    LET cover_prompt == CoverPrompt(r)
    IN  [title             |-> r.title,
         theme             |-> r.theme,
         audience          |-> r.audience,
         style             |-> r.style,
         tone              |-> r.tone,
         moral             |-> r.moral,
         setting           |-> r.setting,
         language          |-> r.language,
         characters        |-> r.characters,
         chapters          |-> chs,
         cover_prompt      |-> Some(cover_prompt),
         cover_image_svg   |-> IF r.include_images
                               THEN Some(cover_image_svg(r.title, cover_prompt,
                                                         r.characters, PALETTES[p]))
                               ELSE None,
         generator_version |-> GeneratorVersion]

-----------------------------------------------------------------------------
(* The generate handler *)

\* Largest chapter count of the requests explored by Spec.
MaxChapters == 2

Mira == <<"M", "i", "r", "a">>
Obo  == <<"O", "b", "o">>

\* A request without optional fields and without characters.
Bare == [title |-> <<"The Lantern Walk">>, theme |-> None, audience |-> "children",
         style |-> None, tone |-> None, moral |-> None, setting |-> None,
         language |-> "en", characters |-> <<>>]

\* A request with every optional field, a character and "Chapter " in its title.
Full == [title |-> <<"Chapter ", "Two">>, theme |-> Some(<<"friendship">>),
         audience |-> "Teens", style |-> Some(<<"s", "c", "i", "-", "f", "i">>),
         tone |-> Some(<<"c", "o", "z", "y">>), moral |-> Some(<<"share">>),
         setting |-> Some(<<"a harbour town">>), language |-> "fr",
         characters |-> <<Mira>>]

WithFlags(f, n, s, g) ==
    [title |-> f.title, theme |-> f.theme, audience |-> f.audience, style |-> f.style,
     tone |-> f.tone, moral |-> f.moral, setting |-> f.setting, language |-> f.language,
     characters |-> f.characters, chapters |-> n, save |-> s, include_images |-> g]

\* The requests explored: both profiles with 1..MaxChapters chapters, and the
\* pairs <<save, include_images>> spread over the profiles so that each profile
\* occurs with each value of each flag and each pair occurs.
Requests ==
    {WithFlags(Bare, n, sg[1], sg[2]) :
        n \in 1..MaxChapters, sg \in {<<TRUE, TRUE>>, <<TRUE, FALSE>>, <<FALSE, FALSE>>}}
    \cup
    {WithFlags(Full, n, sg[1], sg[2]) :
        n \in 1..MaxChapters, sg \in {<<FALSE, TRUE>>, <<TRUE, FALSE>>, <<FALSE, FALSE>>}}

NoRequest == [title |-> <<>>, theme |-> None, audience |-> "children", style |-> None,
              tone |-> None, moral |-> None, setting |-> None, language |-> "en",
              characters |-> <<>>, chapters |-> 1, save |-> FALSE, include_images |-> FALSE]

\* Identifiers the persistence collaborator can return.
Ids == {"id-a", "id-b"}

\* create_document("story", story): returns an opaque identifier or raises.
CreateOutcomes == {[raised |-> FALSE, id |-> Some(x)] : x \in Ids}
                  \cup {[raised |-> TRUE, id |-> None]}

\* Palette draws of one illustration: an index into PALETTES, 0 when no
\* illustration is made and nothing is drawn.
PaletteDraws(r) == IF r.include_images THEN DOMAIN PALETTES ELSE {0}

\* What two Stories of the same request have to agree on: everything but the
\* chapter texts and the palettes of the illustrations.
NoPalette(url) ==
    LET svg == SvgOf(url)
    IN  [svg EXCEPT !.gradient.stops = [k \in DOMAIN @ |-> @[k].offset]]

Shape(st) ==
    [st EXCEPT !.chapters = [k \in DOMAIN @ |->
                                [index        |-> @[k].index,
                                 title        |-> @[k].title,
                                 image_prompt |-> @[k].image_prompt,
                                 image_svg    |-> IF @[k].image_svg = None THEN None
                                                  ELSE Some(NoPalette(@[k].image_svg[1]))]],
               !.cover_image_svg = IF @ = None THEN None ELSE Some(NoPalette(@[1]))]

\* api_generate_story is entered with a validated request; generate_story starts.
Receive(r) ==
    /\ pc = "idle"
    /\ pc' = "loop"
    /\ req' = r
    /\ i' = 1
    /\ chapters' = <<>>
    /\ story' = None
    /\ created' = <<>>
    /\ response' = None
    /\ UNCHANGED <<args, result>>

RangeHasMutExclusive(idx, n) == idx < n

\* idx is still within range(1, n + 1).
RangeHas(idx, n) == idx <= n

\* One iteration of `for i in range(1, req.chapters + 1)`.
ChapterStep ==
    /\ pc = "loop"
    /\ RangeHas(i, req.chapters)
    /\ \E d \in TextDraws(req.characters), p \in PaletteDraws(req) :
           chapters' = Append(chapters, BuildChapter(req, i, d, p))
    /\ i' = i + 1
    /\ UNCHANGED <<pc, req, story, created, response, args, result>>

\* The loop is over: cover prompt, cover illustration, Story; generate_story returns.
Cover ==
    /\ pc = "loop"
    /\ ~RangeHas(i, req.chapters)
    /\ \E p \in PaletteDraws(req) : story' = Some(BuildStory(req, chapters, p))
    /\ pc' = "built"
    /\ UNCHANGED <<req, i, chapters, created, response, args, result>>

SaveWantedMutAlways(r) == TRUE

\* `if payload.save:`
SaveWanted(r) == r.save

\* The rest of api_generate_story: persist when asked to, then respond.  When
\* create_document raises, the exception leaves the handler and no
\* GenerateResponse is made.
Finish ==
    /\ pc = "built"
    /\ IF SaveWanted(req)
       THEN \E o \in CreateOutcomes :
               /\ created' = Append(created, [doc |-> story[1], outcome |-> o])
               /\ response' = IF o.raised
                              THEN Some([status |-> "error", story |-> None, id |-> None])
                              ELSE Some([status |-> "ok", story |-> story, id |-> o.id])
       ELSE /\ created' = created
            /\ response' = Some([status |-> "ok", story |-> story, id |-> None])
    /\ pc' = "done"
    /\ UNCHANGED <<req, i, chapters, story, args, result>>

\* The handler has returned (or raised); the service waits for the next request.
\* Nothing of the call is kept: its state was the locals of the two functions.
Return ==
    /\ pc = "done"
    /\ pc' = "idle"
    /\ req' = NoRequest
    /\ i' = 1
    /\ chapters' = <<>>
    /\ story' = None
    /\ created' = <<>>
    /\ response' = None
    /\ UNCHANGED <<args, result>>

Init ==
    /\ pc = "idle"
    /\ req = NoRequest
    /\ i = 1
    /\ chapters = <<>>
    /\ story = None
    /\ created = <<>>
    /\ response = None
    /\ args = <<>>
    /\ result = <<>>

Next ==
    \/ \E r \in Requests : Receive(r)
    \/ ChapterStep
    \/ Cover
    \/ Finish
    \/ Return

Spec == Init /\ [][Next]_vars

-----------------------------------------------------------------------------
(* Function specifications: the inputs are drawn by Init, the action applies *)
(* the function.  The handler stays idle.                                    *)

Idle ==
    /\ pc = "idle"
    /\ req = NoRequest
    /\ i = 1
    /\ chapters = <<>>
    /\ story = None
    /\ created = <<>>
    /\ response = None

handlerVars == <<pc, req, i, chapters, story, created, response>>

\* The largest chapter count a request may carry: Field(5, ge=1, le=15).
MaxChapterCount == 15

Styles == {None, Some(<<>>), Some(<<"s", "c", "i", "-", "f", "i">>),
           Some(<<"F", "A", "I", "R", "Y", " ", "t", "a", "l", "e">>)}

Tones == {None, Some(<<>>), Some(<<"c", "o", "z", "y">>)}

TitleArgs == [title : {<<"The Lantern Walk">>}, style : Styles, tone : Tones]

InitTitle == Idle /\ args \in TitleArgs /\ result = <<>>

\* make_chapter_title for the next chapter index, as the loop of generate_story
\* calls it; result collects the titles of chapters 1, 2, ...
ApplyTitle ==
    /\ Len(result) < MaxChapterCount
    /\ result' = Append(result,
                        make_chapter_title(args.title, Len(result) + 1, args.style, args.tone))
    /\ UNCHANGED <<args, handlerVars>>

NextTitle == ApplyTitle

SpecTitle == InitTitle /\ [][NextTitle]_vars

\* Largest total chapter count of the chapter_text inputs.
MaxTotal == 4

\* Longest character list of the chapter_text inputs.
MaxCast == 2

Casts == UNION {[1..n -> {Mira, Obo}] : n \in 0..MaxCast}

TextArgs ==
    {[idx |-> k, total |-> n, theme |-> th, setting |-> se, audience |-> au, characters |-> ch] :
        k \in 1..MaxTotal, n \in 1..MaxTotal,
        th \in {None, Some(<<"friendship">>)},
        se \in {None, Some(<<"a harbour town">>)},
        au \in {"children", "Teens", "adults", "robots"},
        ch \in Casts}

InitText == Idle /\ args \in {a \in TextArgs : a.idx <= a.total} /\ result = <<>>

\* chapter_text on the drawn inputs, for every outcome of its random draws.
ApplyText ==
    /\ result = <<>>
    /\ \E d \in TextDraws(args.characters) :
           result' = <<chapter_text(args.idx, args.total, args.theme, args.setting,
                                    args.audience, args.characters, d)>>
    /\ UNCHANGED <<args, handlerVars>>

NextText == ApplyText

SpecText == InitText /\ [][NextText]_vars

\* Longest character list of the initials inputs.
MaxNames == 4

\* Names: empty, blank, plain, padded, one whose initial upper-cases to two
\* characters, one that starts with the fallback glyph, one already upper case.
SampleNames == {<<>>, <<" ">>, <<"m", "i">>, <<" ", "o", " ">>,
                <<"<U+00DF>", "a">>, <<"<U+2605>">>, <<"Z">>}

InitInitials ==
    /\ Idle
    /\ args \in UNION {[1..n -> SampleNames] : n \in 0..MaxNames}
    /\ result = <<>>

\* The glyph of initials(chars), and the glyph the chapter and the cover
\* illustration carry for the same characters.
ApplyInitials ==
    /\ result = <<>>
    /\ \E p \in DOMAIN PALETTES :
          result' = <<[glyph   |-> initials(args),
                       chapter |-> SvgOf(chapter_image_svg(<<"T">>, 1, 1, <<"prompt">>,
                                                           args, PALETTES[p])).glyph,
                       cover   |-> SvgOf(cover_image_svg(<<"T">>, <<"prompt">>,
                                                         args, PALETTES[p])).glyph]>>
    /\ UNCHANGED <<args, handlerVars>>

NextInitials == ApplyInitials

SpecInitials == InitInitials /\ [][NextInitials]_vars

-----------------------------------------------------------------------------
(* Properties *)

\* The chapters of a list carry the indices 1, 2, ..., in order.
IndexedInOrder(chs) == \A k \in DOMAIN chs : chs[k].index = k

\* C1: every Story generate_story returns, and every Story a response carries,
\* has exactly req.chapters chapters, the k-th of which has index k; the list
\* under construction is indexed 1..Len in order as well.
C1_ChapterCountAndIndices ==
    /\ IndexedInOrder(chapters)
    /\ story # None =>
          /\ Len(story[1].chapters) = req.chapters
          /\ IndexedInOrder(story[1].chapters)
    /\ (response # None /\ response[1].story # None) =>
          /\ Len(response[1].story[1].chapters) = req.chapters
          /\ IndexedInOrder(response[1].story[1].chapters)

\* A response carries a Story of more than one chapter.
C1_Witness ==
    /\ pc = "done"
    /\ response[1].status = "ok"
    /\ req.chapters > 1
    /\ Len(response[1].story[1].chapters) = req.chapters

\* C2: in every chapter built, image_prompt and image_svg are present exactly
\* when the request's include_images is set, whatever the other fields are.
C2_ImagesGatedByFlag ==
    \A chs \in {chapters} \cup {st.chapters : st \in Range(story)} :
        \A k \in DOMAIN chs :
            /\ (chs[k].image_prompt # None) <=> req.include_images
            /\ (chs[k].image_svg # None) <=> req.include_images

\* A Story for a request with characters, theme and style but without images:
\* both fields are absent in a chapter.
C2_Witness ==
    /\ story # None
    /\ ~req.include_images
    /\ req.characters # <<>>
    /\ Truthy(req.style)
    /\ story[1].chapters[1].image_prompt = None
    /\ story[1].chapters[1].image_svg = None

\* C3: when save is set and create_document raises, the handler still responds
\* with the assembled Story, unaltered.
C3_StoryReturnedWhenCreateRaises ==
    (pc = "done" /\ created # <<>> /\ created[1].outcome.raised) =>
        /\ response[1].status = "ok"
        /\ response[1].story = story

\* C4: create_document is called once in a call with save set and never in a
\* call without; it is called only when the Story is complete (all chapters,
\* cover prompt), with the Story the response carries, and the response's id is
\* the identifier it returned (None without save).
C4_CreateOncePerSavedStory ==
    /\ Len(created) <= 1
    /\ pc \in {"idle", "loop", "built"} => created = <<>>
    /\ pc = "done" => Len(created) = (IF req.save THEN 1 ELSE 0)
    /\ \A k \in DOMAIN created :
          /\ story # None
          /\ created[k].doc = story[1]
          /\ Len(created[k].doc.chapters) = req.chapters
          /\ created[k].doc.cover_prompt # None
          /\ req.include_images => created[k].doc.cover_image_svg # None
    /\ (pc = "done" /\ response[1].status = "ok") =>
          /\ response[1].story = story
          /\ response[1].id = (IF req.save THEN created[1].outcome.id ELSE None)

\* A saved Story has been answered with the identifier create_document returned.
C4_Witness ==
    /\ pc = "done"
    /\ req.save
    /\ response[1].status = "ok"
    /\ response[1].id = Some("id-b")
    /\ created[1].doc = response[1].story[1]

AllBeatSentences == {BeatSentences[a] : a \in DOMAIN BeatSentences}

\* C5: the one beat sentence in the text of chapter idx of total is the
\* resolution sentence when idx = total, the setup sentence when idx = 1 < total,
\* the escalation sentence when 1 < idx < total.
C5_BeatSentence ==
    result # <<>> =>
        LET text == result[1]
            want == IF args.idx = args.total THEN BeatSentences.resolution
                    ELSE IF args.idx = 1 THEN BeatSentences.setup
                    ELSE BeatSentences.escalation
        IN  /\ Range(text) \cap AllBeatSentences = {want}
            /\ Cardinality({k \in DOMAIN text : text[k] \in AllBeatSentences}) = 1

\* The single chapter of a one-chapter story: arc label setup, resolution beat.
C5_Witness ==
    /\ result # <<>>
    /\ args.idx = 1
    /\ args.total = 1
    /\ Arc(args.idx, args.total) = "setup"
    /\ BeatSentences.resolution \in Range(result[1])

\* C6: the caption of a chapter's illustration is "Chapter {i} / {total}" and the
\* chapter's synthesized title with "Chapter " stripped.
C6_CaptionIsChapterTitle ==
    \A k \in DOMAIN chapters :
        chapters[k].image_svg # None =>
            SvgOf(chapters[k].image_svg[1]).lines =
                << <<"Chapter ">> \o Str(k) \o <<" / ">> \o Str(req.chapters),
                   Remove(chapters[k].title, "Chapter ") >>

\* The base phrase of the title of chapter k: the token after "Chapter k: ".
BaseOf(t, k) == t[Len(Str(k)) + 3]

\* C7: the title of chapter k is "Chapter k: ", the seed at (k-1) mod 10, then
\* the style suffix and the tone suffix when given; chapters k and k+10 have the
\* same base, chapters 1..10 have pairwise distinct bases in list order.
C7_TitleBaseCycles ==
    /\ \A k \in DOMAIN result :
          LET t      == result[k]
              n      == Len(Str(k))
              suffix == (IF Truthy(args.style)
                         THEN <<" <U+2014> ">> \o Title(args.style[1]) ELSE <<>>)
                        \o (IF Truthy(args.tone)
                            THEN <<" (">> \o Title(args.tone[1]) \o <<")">> ELSE <<>>)
          IN  /\ SubSeq(t, 1, n + 2) = <<"Chapter ">> \o Str(k) \o <<": ">>
              /\ BaseOf(t, k) = seeds[((k - 1) % 10) + 1]
              /\ SubSeq(t, n + 4, Len(t)) = suffix
    /\ \A k \in DOMAIN result :
          (k + 10) \in DOMAIN result => BaseOf(result[k + 10], k + 10) = BaseOf(result[k], k)
    /\ \A j, k \in DOMAIN result :
          (j < k /\ k <= 10) => BaseOf(result[j], j) # BaseOf(result[k], k)
    /\ Len(seeds) = 10

\* The fifteen titles of a styled story: chapter 15 repeats the base of chapter 5.
C7_Witness ==
    /\ Len(result) = MaxChapterCount
    /\ Truthy(args.style)
    /\ Truthy(args.tone)
    /\ BaseOf(result[15], 15) = "Shadows and Starlight"
    /\ BaseOf(result[5], 5) = "Shadows and Starlight"

\* generate_story(r) for the first outcome of every random draw.
ReferenceStory(r) ==
    LET d0 == CHOOSE d \in TextDraws(r.characters) : TRUE
        p0 == CHOOSE p \in PaletteDraws(r) : TRUE
    IN  BuildStory(r, [k \in 1..r.chapters |-> BuildChapter(r, k, d0, p0)], p0)

\* C8: whatever its random draws, the Story generate_story returns (pc = "built"
\* is the state it returns in) agrees with the Story
\* the same request yields under the reference draws on everything but chapter
\* texts and palettes, so any two Stories of one request agree on it.
C8_ShapeIndependentOfDraws ==
    pc = "built" => Shape(story[1]) = Shape(ReferenceStory(req))

\* A Story that differs from the reference Story of its request in a chapter
\* text and in a palette.
C8_Witness ==
    /\ pc = "built"
    /\ req.include_images
    /\ req.chapters > 1
    /\ story[1].chapters[2].text # ReferenceStory(req).chapters[2].text
    /\ story[1].cover_image_svg # ReferenceStory(req).cover_image_svg
    /\ story[1].chapters[1].image_svg # ReferenceStory(req).chapters[1].image_svg

\* The last n tokens of s.
Suffix(s, n) == SubSeq(s, Len(s) - n + 1, Len(s))

QuoteTokens == {"\n\n\"We can do this together,\" ", " says. \"We always could,\" ", " replies."}

\* C9: without characters the text ends in the beat sentence and a single space
\* and holds no exchange; with characters it ends in an exchange whose speaker
\* and friend are in the list, the friend being the speaker only when every
\* name of the list is the speaker's.
C9_Dialogue ==
    result # <<>> =>
        LET text  == result[1]
            names == Range(args.characters)
        IN  IF args.characters = <<>>
            THEN /\ text[Len(text)] = " "
                 /\ text[Len(text) - 1] \in AllBeatSentences
                 /\ Range(text) \cap QuoteTokens = {}
            ELSE \E s \in names, f \in names :
                    /\ Len(text) > Len(Dialogue(s, f))
                    /\ Suffix(text, Len(Dialogue(s, f))) = Dialogue(s, f)
                    /\ text[Len(text) - Len(Dialogue(s, f))] \in AllBeatSentences
                    /\ (f = s) => (\A c \in names : c = s)

\* An exchange between two different characters of a two-name list.
C9_Witness ==
    /\ result # <<>>
    /\ Len(args.characters) = 2
    /\ args.characters[1] # args.characters[2]
    /\ Suffix(result[1], Len(Dialogue(args.characters[2], args.characters[1])))
           = Dialogue(args.characters[2], args.characters[1])

\* A name with a character that is not whitespace.
NonBlank(name) == \E k \in DOMAIN name : name[k] \notin Whitespace

\* The first character of a non-blank name that is not whitespace.
FirstLetter(name) ==
    name[CHOOSE k \in DOMAIN name :
            name[k] \notin Whitespace /\ \A j \in 1..(k - 1) : name[j] \in Whitespace]

\* The upper-cased first letters of the first three non-blank names.
FirstThree(chars) ==
    LET named == SelectSeq(chars, NonBlank)
    IN  [k \in 1..Min(3, Len(named)) |-> UpperChar(FirstLetter(named[k]))]

====
